---- MODULE Spec2Model ----
(***************************************************************************)
(* A model of mapreduce() (src/mapreduce.c) together with the word-finder  *)
(* user functions (src/usr_functions.c).                                   *)
(*                                                                         *)
(* File contents are kept as sequences of pieces of the input file rather  *)
(* than as bytes, so that the real buffer sizes (1024) can be used.  The   *)
(* input is a sequence of records (lines); record r has `len` bytes, the   *)
(* last of which is '\n' when `nl` holds (only the last record of a file   *)
(* may lack it).  `hit` says that the line starts with the target word     *)
(* followed by a delimiter and contains it nowhere else.  A piece          *)
(* [rec, off, len] stands for bytes off .. off+len-1 of record rec.        *)
(* Files hold no NUL byte, so strlen() of what fgets() read is its length. *)
(***************************************************************************)
EXTENDS Integers, Sequences, FiniteSets, TLC

\* Bounds of the exploration.
MaxSplits == 2
MaxRecs == 2
MaxPartSplits == 3
MaxPartRecs == 3
MaxPid == 2

\* Record lengths tried: an empty line, short lines, and lines that do not
\* fit the 1024-byte buffers.
RecLens == {1, 2, 3, 1024, 1500}
JobRecLens == {2, 1024}
ShortRecLens == {2}

\* char buffer[1024] of the partitioner, char current_line[1024] of the map.
BufSize == 1024
LineBuf == 1024

\* A file of the working directory: whether it exists, its content, and the
\* call of mapreduce() that created or wrote it last (1 is the call under
\* study, 2 another call running in the same directory).
NoFile == [exists |-> FALSE, data |-> <<>>, by |-> 0]
FileBy(jb, d) == [exists |-> TRUE, data |-> d, by |-> jb]
File(d) == FileBy(1, d)

\* File names that tell the calls of mapreduce() apart.
ItmNamePerJob(jb, k) == <<"mr", jb, k, "itm">>

\* snprintf(.., "split-%d", i), snprintf(.., "mr-%d.itm", i) and "mr.rst", as
\* call jb of mapreduce() forms them.
SplitName(jb, k) == <<"split", k>>
ItmName(jb, k) == <<"mr", k, "itm">>
RstName(jb) == <<"mr", "rst">>
NoPid == 0
\* What fork() returns to the parent when it fails.
ForkFailed == -1

Min(a, b) == IF a < b THEN a ELSE b

VARIABLES
    args_valid,      \* spec != NULL and result != NULL
    input_exists,    \* fopen(spec->input_data_filepath, "r") succeeds
    input,           \* the records of the input file
    total_splits,    \* spec->split_num
    pc,              \* where the coordinator is in mapreduce()
    fatal,           \* the diagnostic the coordinator exited with, if any
    i,               \* the coordinator's loop index
    fpos,            \* read position of input_file: [rec, off]
    split_size,      \* input_file_size / total_splits
    split_file,      \* the files split-<k>
    itm_file,        \* the files mr-<k>.itm
    rst_file,        \* the file mr.rst
    last_pid,        \* the last process id the kernel handed out
    map_worker_pids, \* the coordinator's local array
    result_map_worker_pid,    \* result->map_worker_pid
    result_reduce_worker_pid, \* result->reduce_worker_pid
    mw,              \* the map worker processes
    rw,              \* the reduce worker process, and reduce_worker_pid
    log,             \* the coordinator's diagnostics on stderr, in order
    other            \* how far a second call in the same directory has got

vars == <<args_valid, input_exists, input, total_splits, pc, fatal, i, fpos, split_size,
          split_file, itm_file, rst_file, last_pid, map_worker_pids,
          result_map_worker_pid, result_reduce_worker_pid, mw, rw, log, other>>

-----------------------------------------------------------------------------
\* Input files.

\* A line that holds the target word has at least one byte before its '\n'.
Records(lens) ==
    { r \in [len : lens, nl : BOOLEAN, hit : BOOLEAN] :
        r.hit => r.len >= (IF r.nl THEN 2 ELSE 1) }

\* Every record but the last ends with '\n'.
WellFormed(inp) == \A k \in 1..Len(inp) : k < Len(inp) => inp[k].nl

InputsOf(lens, n) ==
    { inp \in UNION { [1..m -> Records(lens)] : m \in 0..n } : WellFormed(inp) }

RECURSIVE SumLen(_)
SumLen(s) == IF s = <<>> THEN 0 ELSE s[1].len + SumLen(Tail(s))

\* fseek(SEEK_END); ftell()
FileSize(inp) == SumLen(inp)

Splits == 0..(total_splits - 1)

-----------------------------------------------------------------------------
\* The partitioner's copy loop.

AtEOF(inp, pos) == pos.rec > Len(inp)

\* fgets(buffer, sizeof(buffer), input_file): up to the end of the line, and at
\* most sizeof(buffer) - 1 bytes.
FgetsLen(inp, pos) == Min(BufSize - 1, inp[pos.rec].len - pos.off)

Fgets(inp, pos) == [rec |-> pos.rec, off |-> pos.off, len |-> FgetsLen(inp, pos)]

Advance(inp, pos, n) ==
    IF pos.off + n = inp[pos.rec].len
    THEN [rec |-> pos.rec + 1, off |-> 0]
    ELSE [rec |-> pos.rec, off |-> pos.off + n]

\* A copy loop that never lets a split grow past the target size.
LoopContinuesWithinTarget(inp, pos, bytes_read, size) ==
    ~AtEOF(inp, pos) /\ bytes_read + FgetsLen(inp, pos) <= size

\* A copy loop that reads once more when the target is met exactly.
LoopContinuesInclusive(inp, pos, bytes_read, size) ==
    bytes_read <= size /\ ~AtEOF(inp, pos)

\* while (bytes_read < split_size && fgets(...)) { fputs; bytes_read += strlen }
LoopContinues(inp, pos, bytes_read, size) == bytes_read < size /\ ~AtEOF(inp, pos)

RECURSIVE CopyLoop(_, _, _, _, _)
CopyLoop(inp, pos, size, bytes_read, data) ==
    IF LoopContinues(inp, pos, bytes_read, size)
    THEN LET p == Fgets(inp, pos)
         IN CopyLoop(inp, Advance(inp, pos, p.len), size, bytes_read + p.len,
                     Append(data, p))
    ELSE [data |-> data, pos |-> pos, bytes_read |-> bytes_read]

-----------------------------------------------------------------------------
\* word_finder_map / word_finder_reduce (src/usr_functions.c).

\* sizeof(current_line) - 1
LineCap == LineBuf - 1

\* Whether the piece's last byte is the '\n' of its record.
EndsWithNewline(inp, p) == inp[p.rec].nl /\ p.off + p.len = inp[p.rec].len

\* The strstr() search with its word-boundary test: the line being assembled
\* matches when it starts at the beginning of a record that holds the word.
LineMatches(inp, st) == st.start # 0 /\ inp[st.start].hit /\ st.cur_len >= 1

\* The line-end branch: the line is written, followed by '\n', when it
\* matches, and current_line_len is reset.  An output line is kept as
\* [rec, len]: the first len bytes of record rec, then '\n'.
Flush(inp, st) ==
    [cur_len |-> 0, start |-> 0,
     out |-> IF LineMatches(inp, st)
             THEN Append(st.out, [rec |-> st.start, len |-> st.cur_len])
             ELSE st.out]

\* c bytes other than '\n' of record rec, from offset off on, pass through the
\* inner for loop: a byte met while the line is full ends the line and is not
\* kept.
RECURSIVE Feed(_, _, _, _, _)
Feed(inp, st, rec, off, c) ==
    IF c = 0 THEN st
    ELSE IF st.cur_len = LineCap
    THEN Feed(inp, Flush(inp, st), rec, off + 1, c - 1)
    ELSE LET k == Min(c, LineCap - st.cur_len)
         IN Feed(inp,
                 [st EXCEPT !.cur_len = @ + k,
                            !.start = IF st.cur_len = 0
                                      THEN (IF off = 0 THEN rec ELSE 0)
                                      ELSE @],
                 rec, off + k, c - k)

FeedPiece(inp, st, p) ==
    IF EndsWithNewline(inp, p)
    THEN Flush(inp, Feed(inp, st, p.rec, p.off, p.len - 1))
    ELSE Feed(inp, st, p.rec, p.off, p.len)

RECURSIVE MapLoop(_, _, _)
MapLoop(inp, st, data) ==
    IF data = <<>> THEN st
    ELSE MapLoop(inp, FeedPiece(inp, st, Head(data)), Tail(data))

\* What a successful word_finder_map writes for a split holding `data`; a line
\* still being assembled at end of file is never written.
word_finder_map(inp, data) ==
    MapLoop(inp, [cur_len |-> 0, start |-> 0, out |-> <<>>], data).out

\* The whole input as file content.
WholeInput(inp) == [k \in 1..Len(inp) |-> [rec |-> k, off |-> 0, len |-> inp[k].len]]

\* A reduce whose loop stops one file short.
RECURSIVE word_finder_reduce_short(_, _, _)
word_finder_reduce_short(files, k, n) ==
    IF k + 1 >= n THEN <<>>
    ELSE files[k].data \o word_finder_reduce_short(files, k + 1, n)

\* What a successful word_finder_reduce writes: every intermediate file from
\* its beginning, in index order.
RECURSIVE word_finder_reduce(_, _, _)
word_finder_reduce(files, k, n) ==
    IF k >= n THEN <<>> ELSE files[k].data \o word_finder_reduce(files, k + 1, n)

Prefixes(s) == { SubSeq(s, 1, k) : k \in 0..Len(s) }

-----------------------------------------------------------------------------
\* Processes.

\* The process ids held by children that run or have not been waited for.
PidsInUse ==
    { mw[k].pid : k \in { j \in Splits : mw[j].pc # "none" /\ ~mw[j].waited } }
    \cup (IF rw.pc # "none" /\ ~rw.waited THEN {rw.pid} ELSE {})

\* fork() in the parent: the kernel hands out the next process id, counting
\* up and wrapping around, that no process holds.
RECURSIVE NextFree(_, _, _)
NextFree(p, used, tries) ==
    IF tries = 0 THEN NoPid
    ELSE LET q == (p % MaxPid) + 1
         IN IF q \notin used THEN q ELSE NextFree(q, used, tries - 1)

ForkPid == NextFree(last_pid, PidsInUse, MaxPid)

\* The identifier stored at a fixed index instead of the worker's.
RecordMapPidFirst(arr, k, pid) == [arr EXCEPT ![0] = pid]

\* result->map_worker_pid[i] = map_worker_pids[i]
RecordMapPid(arr, k, pid) == [arr EXCEPT ![k] = pid]

NoWorker == [pc |-> "none", status |-> "none", err |-> "none", waited |-> FALSE,
             pid |-> NoPid, ret |-> "none"]
NoReducer == [pc |-> "none", status |-> "none", err |-> "none", waited |-> FALSE,
              pid |-> NoPid, j |-> 0, ret |-> "none"]

\* The test without WIFEXITED: any status other than success.
ExitedNotSuccess(status) == status # "ok"

\* WIFEXITED(status) && WEXITSTATUS(status) != SUCCESS
ExitedWithFailure(status) == status = "fail"

\* The diagnostic printed whatever the status.
DiagnoseAlways(lg, status, msg) == Append(lg, msg)

Diagnose(lg, status, msg) == IF ExitedWithFailure(status) THEN Append(lg, msg) ELSE lg

-----------------------------------------------------------------------------
\* The state after the call, before its first statement.

InitJob(inputs, splits, second) ==
    /\ args_valid \in BOOLEAN
    /\ input_exists \in BOOLEAN
    /\ input \in inputs
    /\ total_splits \in splits
    /\ pc = "check_args"
    /\ fatal = "none"
    /\ i = 0
    /\ fpos = [rec |-> 1, off |-> 0]
    /\ split_size = 0
    /\ split_file = [k \in 0..(total_splits - 1) |-> NoFile]
    /\ itm_file = [k \in 0..(total_splits - 1) |-> NoFile]
    /\ rst_file = NoFile
    /\ last_pid = 0
    /\ map_worker_pids = [k \in 0..(total_splits - 1) |-> NoPid]
    /\ result_map_worker_pid = [k \in 0..(total_splits - 1) |-> NoPid]
    /\ result_reduce_worker_pid = NoPid
    /\ mw = [k \in 0..(total_splits - 1) |-> NoWorker]
    /\ rw = NoReducer
    /\ log = <<>>
    /\ other = second

\* One call of mapreduce(), alone in its working directory.
InitWith(inputs, splits) == InitJob(inputs, splits, "absent")

Init == InitWith(InputsOf(JobRecLens, MaxRecs), 1..MaxSplits)

PartInit == InitWith(InputsOf(RecLens, MaxPartRecs), 1..MaxPartSplits)

job == <<args_valid, input_exists, input, total_splits, other>>
files == <<split_file, itm_file, rst_file>>
procs == <<last_pid, map_worker_pids, result_map_worker_pid,
           result_reduce_worker_pid, mw, rw>>

\* EXIT_ERROR: the coordinator process prints a diagnostic and exits.
EXIT_ERROR(msg) == pc' = "aborted" /\ fatal' = msg

Continue(next) == pc' = next /\ UNCHANGED fatal

-----------------------------------------------------------------------------
\* The coordinator: setup and partitioning.

CheckArgs ==
    /\ pc = "check_args"
    /\ IF args_valid THEN Continue("open_input") ELSE EXIT_ERROR("args")
    /\ UNCHANGED <<job, i, fpos, split_size, files, procs, log>>

\* The input file used without looking at what fopen returned.
OpenInputUnchecked ==
    /\ pc = "open_input"
    /\ split_size' = FileSize(input) \div total_splits
    /\ fpos' = [rec |-> 1, off |-> 0]
    /\ i' = 0
    /\ Continue("split")
    /\ UNCHANGED <<job, files, procs, log>>

\* fopen, the size computation, and the allocation of the two name arrays.
OpenInput ==
    /\ pc = "open_input"
    /\ IF ~input_exists
       THEN EXIT_ERROR("input") /\ UNCHANGED <<i, fpos, split_size>>
       ELSE \E malloc_ok \in BOOLEAN :
              /\ split_size' = FileSize(input) \div total_splits
              /\ fpos' = [rec |-> 1, off |-> 0]
              /\ i' = 0
              /\ IF malloc_ok THEN Continue("split") ELSE EXIT_ERROR("malloc")
    /\ UNCHANGED <<job, files, procs, log>>

\* One iteration of the splitting loop: create split-<i>, copy, close.
SplitStep ==
    /\ pc = "split"
    /\ \E fopen_ok \in BOOLEAN :
         IF ~fopen_ok
         THEN EXIT_ERROR("split") /\ UNCHANGED <<i, fpos, split_file>>
         ELSE LET r == CopyLoop(input, fpos, split_size, 0, <<>>)
              IN /\ split_file' = [split_file EXCEPT ![i] = File(r.data)]
                 /\ fpos' = r.pos
                 /\ i' = i + 1
                 /\ Continue(IF i + 1 < total_splits THEN "split" ELSE "alloc_pids")
    /\ UNCHANGED <<job, split_size, itm_file, rst_file, procs, log>>

AllocPids ==
    /\ pc = "alloc_pids"
    /\ \E malloc_ok \in BOOLEAN :
         IF malloc_ok THEN Continue("fork_map") /\ i' = 0
         ELSE EXIT_ERROR("malloc") /\ UNCHANGED i
    /\ UNCHANGED <<job, fpos, split_size, files, procs, log>>

-----------------------------------------------------------------------------
\* The coordinator: the map phase, the barrier and the reduce phase.

\* The forking loop going on after a fork() that failed.
ForkMapUnchecked ==
    /\ pc = "fork_map"
    /\ \E fork_ok \in BOOLEAN :
         LET pid == IF fork_ok THEN ForkPid ELSE NoPid
         IN /\ IF pid = NoPid
               THEN /\ map_worker_pids' = [map_worker_pids EXCEPT ![i] = ForkFailed]
                    /\ UNCHANGED <<last_pid, result_map_worker_pid, mw>>
               ELSE /\ map_worker_pids' = [map_worker_pids EXCEPT ![i] = pid]
                    /\ last_pid' = pid
                    /\ mw' = [mw EXCEPT ![i].pc = "open_split", ![i].pid = pid]
                    /\ result_map_worker_pid' = RecordMapPid(result_map_worker_pid, i, pid)
            /\ IF i + 1 < total_splits
               THEN Continue("fork_map") /\ i' = i + 1
               ELSE Continue("wait_map") /\ i' = 0
            /\ UNCHANGED <<result_reduce_worker_pid, rw>>
    /\ UNCHANGED <<job, fpos, split_size, files, log>>

\* One iteration of the forking loop, seen from the parent.
ForkMap ==
    /\ pc = "fork_map"
    /\ \E fork_ok \in BOOLEAN :
         LET pid == ForkPid
         IN IF ~fork_ok \/ pid = NoPid
            THEN /\ map_worker_pids' = [map_worker_pids EXCEPT ![i] = ForkFailed]
                 /\ EXIT_ERROR("fork_map")
                 /\ UNCHANGED <<i, last_pid, result_map_worker_pid,
                                result_reduce_worker_pid, mw, rw>>
            ELSE /\ map_worker_pids' = [map_worker_pids EXCEPT ![i] = pid]
                 /\ last_pid' = pid
                 /\ mw' = [mw EXCEPT ![i].pc = "open_split", ![i].pid = pid]
                 /\ result_map_worker_pid' = RecordMapPid(result_map_worker_pid, i, pid)
                 /\ IF i + 1 < total_splits
                    THEN Continue("fork_map") /\ i' = i + 1
                    ELSE Continue("wait_map") /\ i' = 0
                 /\ UNCHANGED <<result_reduce_worker_pid, rw>>
    /\ UNCHANGED <<job, fpos, split_size, files, log>>

\* A wait that returns at once (WNOHANG).
WaitReturnsNoHang(k) == TRUE

\* waitpid(map_worker_pids[i]) returns once worker i has terminated.
WaitReturns(k) == mw[k].pc = "exited"

\* The waiting loop stopping one worker short.
MoreToWaitShort(k) == k < total_splits - 1

\* The waiting loop's condition, i < total_splits.
MoreToWait(k) == k < total_splits

\* The waiting loop giving up the job at the first failed worker.
WaitMapFatal ==
    /\ pc = "wait_map"
    /\ WaitReturns(i)
    /\ mw' = [mw EXCEPT ![i].waited = TRUE]
    /\ log' = Diagnose(log, mw[i].status, <<"map", i>>)
    /\ IF ExitedWithFailure(mw[i].status)
       THEN EXIT_ERROR("map_failed") /\ UNCHANGED i
       ELSE /\ i' = i + 1
            /\ Continue(IF MoreToWait(i + 1) THEN "wait_map" ELSE "fork_reduce")
    /\ UNCHANGED <<job, fpos, split_size, files, last_pid, map_worker_pids,
                   result_map_worker_pid, result_reduce_worker_pid, rw>>

\* The waiting loop taking the workers as they terminate (waitpid(-1)).
WaitMapAnyOrder ==
    /\ pc = "wait_map"
    /\ \E k \in Splits :
         /\ ~mw[k].waited /\ WaitReturns(k)
         /\ mw' = [mw EXCEPT ![k].waited = TRUE]
         /\ log' = Diagnose(log, mw[k].status, <<"map", k>>)
    /\ i' = i + 1
    /\ Continue(IF MoreToWait(i + 1) THEN "wait_map" ELSE "fork_reduce")
    /\ UNCHANGED <<job, fpos, split_size, files, last_pid, map_worker_pids,
                   result_map_worker_pid, result_reduce_worker_pid, rw>>

\* One iteration of the waiting loop.
WaitMap ==
    /\ pc = "wait_map"
    /\ WaitReturns(i)
    /\ mw' = [mw EXCEPT ![i].waited = TRUE]
    /\ log' = Diagnose(log, mw[i].status, <<"map", i>>)
    /\ i' = i + 1
    /\ Continue(IF MoreToWait(i + 1) THEN "wait_map" ELSE "fork_reduce")
    /\ UNCHANGED <<job, fpos, split_size, files, last_pid, map_worker_pids,
                   result_map_worker_pid, result_reduce_worker_pid, rw>>

\* The identifier of the reduce worker never stored.
RecordReducePidNot(pid) == result_reduce_worker_pid

\* result->reduce_worker_pid = reduce_worker_pid
RecordReducePid(pid) == pid

ForkReduce ==
    /\ pc = "fork_reduce"
    /\ \E fork_ok \in BOOLEAN :
         LET pid == ForkPid
         IN IF ~fork_ok \/ pid = NoPid
            THEN /\ rw' = [rw EXCEPT !.pid = ForkFailed]
                 /\ EXIT_ERROR("fork_reduce")
                 /\ UNCHANGED <<last_pid, map_worker_pids, result_map_worker_pid,
                                result_reduce_worker_pid, mw>>
            ELSE /\ rw' = [rw EXCEPT !.pc = "alloc", !.pid = pid]
                 /\ last_pid' = pid
                 /\ result_reduce_worker_pid' = RecordReducePid(pid)
                 /\ Continue("wait_reduce")
                 /\ UNCHANGED <<map_worker_pids, result_map_worker_pid, mw>>
    /\ UNCHANGED <<job, i, fpos, split_size, files, log>>

\* waitpid(reduce_worker_pid) returns once the reduce worker has terminated.
ReduceWaitReturns == rw.pc = "exited"

\* The wait for the reduce worker, the cleanup and the return.
WaitReduce ==
    /\ pc = "wait_reduce"
    /\ ReduceWaitReturns
    /\ rw' = [rw EXCEPT !.waited = TRUE]
    /\ log' = Diagnose(log, rw.status, <<"reduce">>)
    /\ Continue("returned")
    /\ UNCHANGED <<job, i, fpos, split_size, files, last_pid, map_worker_pids,
                   result_map_worker_pid, result_reduce_worker_pid, mw>>

-----------------------------------------------------------------------------
\* Map worker k (the child branch of the forking loop).

\* _EXIT_ERROR / _exit / death by a signal: `err` is the worker's own diagnostic.
MapExit(k, status, err) ==
    mw' = [mw EXCEPT ![k].pc = "exited", ![k].status = status, ![k].err = err]

\* The worker exiting with success whatever map_func returned.
MapReturnIgnored(k, ret) ==
    mw' = [mw EXCEPT ![k].pc = "exited", ![k].ret = ret,
                     ![k].status = "ok", ![k].err = "none"]

\* The exit after map_func: `ret` is what map_func returned (map_status).
MapReturn(k, ret) ==
    mw' = [mw EXCEPT ![k].pc = "exited", ![k].ret = ret,
                     ![k].status = IF ret = "ok" THEN "ok" ELSE "fail",
                     ![k].err = IF ret = "ok" THEN "none" ELSE "map_func"]

MapFrame == UNCHANGED <<job, pc, fatal, i, fpos, split_size, split_file, rst_file, last_pid,
                        map_worker_pids, result_map_worker_pid,
                        result_reduce_worker_pid, rw, log>>

MapOpenSplit(k) ==
    /\ mw[k].pc = "open_split"
    /\ \E open_ok \in BOOLEAN :
         IF open_ok /\ split_file[k].exists
         THEN mw' = [mw EXCEPT ![k].pc = "create_itm"]
         ELSE MapExit(k, "fail", "open_split")
    /\ UNCHANGED itm_file
    /\ MapFrame

\* The worker going on to map_func with no intermediate file created.
MapCreateItmNot(k) ==
    /\ mw[k].pc = "create_itm"
    /\ \E open_ok \in BOOLEAN :
         IF open_ok
         THEN mw' = [mw EXCEPT ![k].pc = "map_func"]
         ELSE MapExit(k, "fail", "create_itm")
    /\ UNCHANGED itm_file
    /\ MapFrame

MapCreateItm(k) ==
    /\ mw[k].pc = "create_itm"
    /\ \E open_ok \in BOOLEAN :
         IF open_ok
         THEN /\ itm_file' = [itm_file EXCEPT ![k] = File(<<>>)]
              /\ mw' = [mw EXCEPT ![k].pc = "map_func"]
         ELSE MapExit(k, "fail", "create_itm") /\ UNCHANGED itm_file
    /\ MapFrame

\* spec->map_func, the two close() calls and the exit.
MapFunc(k) ==
    /\ mw[k].pc = "map_func"
    /\ LET out == word_finder_map(input, split_file[k].data)
       IN \/ /\ itm_file' = [itm_file EXCEPT ![k] = File(out)]
             /\ MapReturn(k, "ok")
          \/ \E part \in Prefixes(out) :
               /\ itm_file' = [itm_file EXCEPT ![k] = File(part)]
               /\ MapReturn(k, "fail")
    /\ MapFrame

\* The worker is killed by a signal; one killed inside map_func may have
\* written part of its output.
MapKilled(k) ==
    /\ mw[k].pc \in {"open_split", "create_itm", "map_func"}
    /\ IF mw[k].pc = "map_func"
       THEN \E part \in Prefixes(word_finder_map(input, split_file[k].data)) :
              itm_file' = [itm_file EXCEPT ![k] = File(part)]
       ELSE UNCHANGED itm_file
    /\ MapExit(k, "signal", "none")
    /\ MapFrame

-----------------------------------------------------------------------------
\* The reduce worker (the child branch of the second fork).

ReduceExit(status, err) ==
    rw' = [rw EXCEPT !.pc = "exited", !.status = status, !.err = err]

\* The exit after reduce_func: `ret` is what reduce_func returned.
ReduceReturn(ret) ==
    rw' = [rw EXCEPT !.pc = "exited", !.ret = ret,
                     !.status = IF ret = "ok" THEN "ok" ELSE "fail",
                     !.err = IF ret = "ok" THEN "none" ELSE "reduce_func"]

ReduceFrame == UNCHANGED <<job, pc, fatal, i, fpos, split_size, split_file, itm_file, last_pid,
                           map_worker_pids, result_map_worker_pid,
                           result_reduce_worker_pid, mw, log>>

\* mr.rst created first, before any intermediate file is opened.
ReduceAllocCreatesRst ==
    /\ rw.pc = "alloc"
    /\ \E malloc_ok \in BOOLEAN :
         IF malloc_ok THEN rw' = [rw EXCEPT !.pc = "open_itm", !.j = 0]
         ELSE ReduceExit("fail", "malloc")
    /\ rst_file' = File(<<>>)
    /\ ReduceFrame

ReduceAlloc ==
    /\ rw.pc = "alloc"
    /\ \E malloc_ok \in BOOLEAN :
         IF malloc_ok THEN rw' = [rw EXCEPT !.pc = "open_itm", !.j = 0]
         ELSE ReduceExit("fail", "malloc")
    /\ UNCHANGED rst_file
    /\ ReduceFrame

\* The opening loop going on after an open() that failed.
ReduceOpenItmUnchecked ==
    /\ rw.pc = "open_itm"
    /\ rw' = [rw EXCEPT !.j = @ + 1,
                        !.pc = IF rw.j + 1 < total_splits
                               THEN "open_itm" ELSE "create_rst"]
    /\ UNCHANGED rst_file
    /\ ReduceFrame

\* One iteration of the loop that opens the intermediate files.
ReduceOpenItm ==
    /\ rw.pc = "open_itm"
    /\ \E open_ok \in BOOLEAN :
         IF open_ok /\ itm_file[rw.j].exists
         THEN rw' = [rw EXCEPT !.j = @ + 1,
                               !.pc = IF rw.j + 1 < total_splits
                                      THEN "open_itm" ELSE "create_rst"]
         ELSE ReduceExit("fail", "open_itm")
    /\ UNCHANGED rst_file
    /\ ReduceFrame

ReduceCreateRst ==
    /\ rw.pc = "create_rst"
    /\ \E open_ok \in BOOLEAN :
         IF open_ok
         THEN rst_file' = File(<<>>) /\ rw' = [rw EXCEPT !.pc = "reduce_func"]
         ELSE ReduceExit("fail", "create_rst") /\ UNCHANGED rst_file
    /\ ReduceFrame

\* spec->reduce_func, the close() calls and the exit.
ReduceFunc ==
    /\ rw.pc = "reduce_func"
    /\ LET out == word_finder_reduce(itm_file, 0, total_splits)
       IN \/ rst_file' = File(out) /\ ReduceReturn("ok")
          \/ \E part \in Prefixes(out) : rst_file' = File(part) /\ ReduceReturn("fail")
    /\ ReduceFrame

ReduceKilled ==
    /\ rw.pc \in {"alloc", "open_itm", "create_rst", "reduce_func"}
    /\ IF rw.pc = "reduce_func"
       THEN \E part \in Prefixes(word_finder_reduce(itm_file, 0, total_splits)) :
              rst_file' = File(part)
       ELSE UNCHANGED rst_file
    /\ ReduceExit("signal", "none")
    /\ ReduceFrame

-----------------------------------------------------------------------------
\* A second call of mapreduce(), made with the same spec by another process in
\* the same working directory.  Each of its phases is one step, none of its
\* workers fails, and the process ids it uses up are left out.

\* What the partitioner writes into the n splits from position pos on.
RECURSIVE SplitsFrom(_, _, _, _)
SplitsFrom(inp, pos, size, n) ==
    IF n = 0 THEN <<>>
    ELSE LET r == CopyLoop(inp, pos, size, 0, <<>>)
         IN <<r.data>> \o SplitsFrom(inp, r.pos, size, n - 1)

\* The files arr[x], named mine[x], after the second call has written
\* content[k] into the file it names theirs[k], for every k.
WrittenByOther(arr, mine, theirs, content) ==
    [x \in Splits |->
       IF \E k \in Splits : theirs[k] = mine[x]
       THEN FileBy(2, content[CHOOSE k \in Splits : theirs[k] = mine[x]])
       ELSE arr[x]]

SplitNames(jb) == [k \in Splits |-> SplitName(jb, k)]
ItmNames(jb) == [k \in Splits |-> ItmName(jb, k)]

OtherFrame == UNCHANGED <<args_valid, input_exists, input, total_splits, pc, fatal, i,
                          fpos, split_size, procs, log>>

\* Its splitting loop.
OtherPartition ==
    /\ other = "start"
    /\ args_valid /\ input_exists
    /\ LET s == SplitsFrom(input, [rec |-> 1, off |-> 0],
                           FileSize(input) \div total_splits, total_splits)
       IN split_file' = WrittenByOther(split_file, SplitNames(1), SplitNames(2),
                                      [k \in Splits |-> s[k + 1]])
    /\ other' = "split_done"
    /\ UNCHANGED <<itm_file, rst_file>>
    /\ OtherFrame

\* Its map workers create their intermediate files.
OtherCreateItm ==
    /\ other = "split_done"
    /\ itm_file' = WrittenByOther(itm_file, ItmNames(1), ItmNames(2),
                                  [k \in Splits |-> <<>>])
    /\ other' = "itm_created"
    /\ UNCHANGED <<split_file, rst_file>>
    /\ OtherFrame

\* Its map workers run map_func on the splits as they are then.
OtherMapFunc ==
    /\ other = "itm_created"
    /\ itm_file' = WrittenByOther(itm_file, ItmNames(1), ItmNames(2),
                       [k \in Splits |-> word_finder_map(input, split_file[k].data)])
    /\ other' = "itm_written"
    /\ UNCHANGED <<split_file, rst_file>>
    /\ OtherFrame

\* Its reduce worker creates mr.rst and runs reduce_func.
OtherReduce ==
    /\ other = "itm_written"
    /\ rst_file' = IF RstName(2) = RstName(1)
                   THEN FileBy(2, word_finder_reduce(itm_file, 0, total_splits))
                   ELSE rst_file
    /\ other' = "done"
    /\ UNCHANGED <<split_file, itm_file>>
    /\ OtherFrame

OtherJob == OtherPartition \/ OtherCreateItm \/ OtherMapFunc \/ OtherReduce

-----------------------------------------------------------------------------
Partition == CheckArgs \/ OpenInput \/ SplitStep \/ AllocPids

Coordinator == Partition \/ ForkMap \/ WaitMap \/ ForkReduce \/ WaitReduce

MapWorker(k) == MapOpenSplit(k) \/ MapCreateItm(k) \/ MapFunc(k) \/ MapKilled(k)

ReduceWorker ==
    ReduceAlloc \/ ReduceOpenItm \/ ReduceCreateRst \/ ReduceFunc \/ ReduceKilled

Next ==
    \/ Coordinator
    \/ \E k \in Splits : MapWorker(k)
    \/ ReduceWorker

Spec == Init /\ [][Next]_vars

\* The partitioner alone, over a wider range of inputs.
PartNext == Partition

PartSpec == PartInit /\ [][PartNext]_vars

\* Two calls in one working directory, over inputs of at most one short line.
TwoJobInit == InitJob(InputsOf(ShortRecLens, 1), 1..MaxSplits, "start")

TwoJobNext == Next \/ OtherJob

TwoJobSpec == TwoJobInit /\ [][TwoJobNext]_vars

-----------------------------------------------------------------------------
\* Properties.

Spawned(k) == mw[k].pc # "none"
Terminated(k) == mw[k].pc = "exited"
Waited(k) == mw[k].waited
ReduceSpawned == rw.pc # "none"

\* C1: the reduce worker exists only when every map worker has terminated and
\* the coordinator's wait for it has returned.
C1_ReduceAfterBarrier ==
    ReduceSpawned => \A k \in Splits : Terminated(k) /\ Waited(k)

C1_Witness ==
    /\ ReduceSpawned
    /\ total_splits >= 2
    /\ \E k \in Splits : mw[k].status = "fail"

\* C2: a coordinator step that observes a failed map worker goes on to the
\* next worker, or to the reduce phase after the last one, without touching
\* the other workers and without exiting; and a call that has returned has
\* waited for every map worker and spawned the reduce worker, once.
C2_ObservesFailure == pc = "wait_map" /\ mw[i].status = "fail" /\ ~Waited(i) /\ mw'[i].waited

C2_FailureNotFatal ==
    /\ [][C2_ObservesFailure =>
            /\ pc' = (IF i + 1 < total_splits THEN "wait_map" ELSE "fork_reduce")
            /\ i' = i + 1
            /\ fatal' = "none"
            /\ \A k \in Splits \ {i} : mw'[k] = mw[k]]_vars
    /\ [][ReduceSpawned => rw'.pid = rw.pid]_vars
    /\ [](pc = "returned" => ReduceSpawned /\ \A k \in Splits : Waited(k))

C2_Witness ==
    /\ pc = "returned"
    /\ total_splits >= 2
    /\ mw[0].status = "fail"
    /\ Waited(1)
    /\ rw.waited

\* C3: as soon as the worker for split k exists, result->map_worker_pid[k] is
\* its process id, whether or not it has finished or been waited for; once
\* all are spawned every entry is set; and the entries of the spawned workers
\* are pairwise distinct.
C3_PidsRecorded ==
    /\ \A k \in Splits : Spawned(k) =>
         result_map_worker_pid[k] = mw[k].pid /\ mw[k].pid # NoPid
    /\ \A k \in Splits : ~Spawned(k) => result_map_worker_pid[k] = NoPid
    /\ pc \in {"wait_map", "fork_reduce", "wait_reduce", "returned"} =>
         \A k \in Splits : result_map_worker_pid[k] # NoPid
    /\ \A j, k \in Splits :
         Spawned(j) /\ Spawned(k) /\ j # k =>
           result_map_worker_pid[j] # result_map_worker_pid[k]

\* The second worker has finished before the first, and none is waited for.
C3_Witness ==
    /\ pc = "wait_map"
    /\ total_splits >= 2
    /\ Terminated(1) /\ ~Terminated(0) /\ ~Waited(0)
    /\ result_map_worker_pid[0] # NoPid /\ result_map_worker_pid[1] # NoPid

\* The scheduler runs the coordinator whenever it can take a step, and every
\* worker terminates.  Whether the call returns does not depend on what the
\* files hold, so the inputs are the short ones.
FairInit == InitWith(InputsOf(JobRecLens, 1), 1..MaxSplits)

FairSpec ==
    /\ FairInit /\ [][Next]_vars
    /\ WF_vars(Coordinator)
    /\ \A k \in 0..(MaxSplits - 1) : WF_vars(k \in Splits /\ MapWorker(k))
    /\ WF_vars(ReduceWorker)

\* C8: once the map workers are all spawned, the call returns, or exits
\* because the reduce worker could not be spawned; a call that has returned
\* has spawned the reduce worker and recorded its process id; and the reduce
\* worker is spawned once.
C8_EventuallyReturns ==
    /\ (pc = "wait_map") ~> (pc = "returned" \/ fatal = "fork_reduce")
    /\ (pc = "wait_reduce") ~> (pc = "returned")
    /\ [](pc = "returned" =>
            ReduceSpawned /\ rw.pid # NoPid /\ result_reduce_worker_pid = rw.pid)
    /\ [][ReduceSpawned => rw'.pid = rw.pid]_vars

C8_Witness ==
    /\ pc = "returned"
    /\ \E k \in Splits : mw[k].status = "fail"
    /\ \E k \in Splits : mw[k].status = "signal"
    /\ rw.status = "fail"
    /\ result_reduce_worker_pid = rw.pid

-----------------------------------------------------------------------------
\* The partitioner's result.

\* The splitting loop has run to its end.
PartitionDone == \A k \in Splits : split_file[k].exists

SplitBytes(k) == SumLen(split_file[k].data)

RECURSIVE BytesUpTo(_)
BytesUpTo(k) == IF k < 0 THEN 0 ELSE SplitBytes(k) + BytesUpTo(k - 1)

TargetSize == FileSize(input) \div total_splits

\* The input was used up by the time split k was closed.
ExhaustedBy(k) == BytesUpTo(k) = FileSize(input)

RECURSIVE ConcatSplits(_)
ConcatSplits(k) ==
    IF k < 0 THEN <<>> ELSE ConcatSplits(k - 1) \o split_file[k].data

\* The pieces are, in order and without a gap or an overlap, the bytes of the
\* input from position pos on.
RECURSIVE ContinuesFrom(_, _)
ContinuesFrom(data, pos) ==
    \/ data = <<>>
    \/ LET p == Head(data)
       IN /\ ~AtEOF(input, pos)
          /\ p.rec = pos.rec /\ p.off = pos.off
          /\ p.len >= 1 /\ p.off + p.len <= input[p.rec].len
          /\ ContinuesFrom(Tail(data), Advance(input, pos, p.len))

IsPrefixOfInput(data) == ContinuesFrom(data, [rec |-> 1, off |-> 0])

\* The split ends where a record ends (at a '\n' or at the end of the input).
EndsOnRecordBoundary(data) ==
    data # <<>> =>
      LET p == data[Len(data)] IN p.off + p.len = input[p.rec].len

\* C4 as stated: each split but the last holds at least floor(size / N) bytes.
C4_AtLeastTarget ==
    PartitionDone => \A k \in 0..(total_splits - 2) : SplitBytes(k) >= TargetSize

\* C4, amended: each split but the last holds at least floor(size / N) bytes,
\* unless the input ran out while it was being filled; it then holds all that
\* was left of the input.
C4_AtLeastTargetOrExhausted ==
    PartitionDone =>
      \A k \in 0..(total_splits - 2) : SplitBytes(k) >= TargetSize \/ ExhaustedBy(k)

C4_Witness ==
    /\ PartitionDone
    /\ total_splits >= 3
    /\ SplitBytes(0) > TargetSize
    /\ SplitBytes(1) < TargetSize /\ SplitBytes(1) > 0
    /\ ExhaustedBy(1)

\* C5: the splits, in index order, make up a prefix of the input with no byte
\* twice and none skipped, and every split ends on a record boundary.
C5_WholeRecordPrefix ==
    PartitionDone =>
      /\ IsPrefixOfInput(ConcatSplits(total_splits - 1))
      /\ \A k \in Splits : EndsOnRecordBoundary(split_file[k].data)

\* C6: when the input file cannot be opened the call ends in the exit with
\* the diagnostic about the input file, with no file created and no worker
\* spawned, and never returns.
C6_NoInputNothingDone ==
    ~input_exists =>
      /\ pc \in {"check_args", "open_input", "aborted"}
      /\ args_valid /\ pc = "aborted" => fatal = "input"
      /\ \A k \in Splits : ~split_file[k].exists /\ ~itm_file[k].exists
      /\ ~rst_file.exists
      /\ \A k \in Splits : ~Spawned(k)
      /\ ~ReduceSpawned

C6_Witness == ~input_exists /\ args_valid /\ pc = "aborted" /\ fatal = "input"

\* C7: a fork() that failed ends the coordinator: after a failed fork of map
\* worker i no worker from i on exists, no worker has been waited for and the
\* reduce worker is not spawned; after a failed fork of the reduce worker
\* there is none; and a coordinator that has exited spawns nothing, waits for
\* nothing and does not return.
MapForkFailed == \E k \in Splits : map_worker_pids[k] = ForkFailed
ReduceForkFailed == rw.pid = ForkFailed

C7_SpawnFailureFatal ==
    /\ [](MapForkFailed =>
            /\ pc = "aborted" /\ fatal = "fork_map"
            /\ map_worker_pids[i] = ForkFailed
            /\ \A k \in Splits : k >= i => ~Spawned(k)
            /\ \A k \in Splits : ~Waited(k)
            /\ ~ReduceSpawned /\ result_reduce_worker_pid = NoPid)
    /\ [](ReduceForkFailed =>
            pc = "aborted" /\ fatal = "fork_reduce" /\ ~ReduceSpawned
            /\ result_reduce_worker_pid = NoPid)
    /\ [][pc = "aborted" =>
            /\ pc' = "aborted"
            /\ \A k \in Splits : Spawned(k)' = Spawned(k) /\ Waited(k)' = Waited(k)
            /\ ReduceSpawned' = ReduceSpawned
            /\ rw'.waited = rw.waited]_vars

\* The second fork failed while the first worker goes on running.
C7_Witness ==
    /\ pc = "aborted" /\ fatal = "fork_map"
    /\ total_splits >= 2 /\ i = 1
    /\ Terminated(0) /\ ~Waited(0)

\* C9: a reduce worker that cannot open an intermediate file exits with a
\* failure status before mr.rst is created, so that a reduce worker which got
\* past the opening loop, or succeeded, found every intermediate file; and a
\* coordinator that has waited for a failed reduce worker has printed the
\* diagnostic, last, and has returned.
C9_MissingItmFailsReduce ==
    /\ rw.err = "open_itm" =>
         rw.pc = "exited" /\ rw.status = "fail" /\ ~rst_file.exists
    /\ rw.pc \in {"create_rst", "reduce_func"} \/ rw.status = "ok" =>
         \A k \in Splits : itm_file[k].exists
    /\ rw.waited /\ rw.status = "fail" =>
         /\ pc = "returned" /\ fatal = "none"
         /\ log # <<>> /\ log[Len(log)] = <<"reduce">>

\* A map worker failed before creating its file, and the call has returned.
C9_Witness ==
    /\ pc = "returned"
    /\ rw.err = "open_itm"
    /\ \E k \in Splits : mw[k].err = "open_split" /\ ~itm_file[k].exists /\ rw.j = k
    /\ log[Len(log)] = <<"reduce">>

\* Adjacent pieces of one record joined.
RECURSIVE Coalesce(_)
Coalesce(data) ==
    IF Len(data) <= 1 THEN data
    ELSE LET a == data[1]
             b == data[2]
         IN IF a.rec = b.rec /\ a.off + a.len = b.off
            THEN Coalesce(<<[a EXCEPT !.len = a.len + b.len]>> \o SubSeq(data, 3, Len(data)))
            ELSE <<a>> \o Coalesce(Tail(data))

DirectTransform == word_finder_map(input, WholeInput(input))

\* C10: with one split, split-0 holds the whole input, there is one map
\* worker and the reduce worker opens one intermediate file; the file of a
\* successful map worker, and the result of a successful reduce worker run
\* after it, hold what word_finder_map writes for the whole input.
C10_SingleSplit ==
    total_splits = 1 =>
      /\ PartitionDone => Coalesce(split_file[0].data) = WholeInput(input)
      /\ DOMAIN mw = {0} /\ rw.j <= 1
      /\ pc = "returned" => Spawned(0) /\ ReduceSpawned
      /\ mw[0].status = "ok" => itm_file[0].data = DirectTransform
      /\ mw[0].status = "ok" /\ rw.status = "ok" => rst_file.data = DirectTransform

\* A line too long for the buffers, holding the word, went through.
C10_Witness ==
    /\ total_splits = 1
    /\ pc = "returned"
    /\ mw[0].status = "ok" /\ rw.status = "ok"
    /\ Len(input) >= 1 /\ input[1].len >= BufSize /\ input[1].hit
    /\ Len(split_file[0].data) > Len(input)
    /\ rst_file.data # <<>>

-----------------------------------------------------------------------------
\* The workers' files and the coordinator's waits.

\* C11 as stated: once some map worker is spawned, every intermediate file
\* exists.
C11_ItmExistBeforeWorkers ==
    (\E k \in Splits : Spawned(k)) => \A k \in Splits : itm_file[k].exists

\* C11, amended: mr-k.itm is created, empty, by map worker k itself, after it
\* has opened its split and before it calls map_func: the file of a worker
\* that is in map_func, or has returned from it, exists (and is empty until
\* map_func writes); that of a worker not yet spawned, or one that failed
\* before or at the creation, does not.
C11_ItmCreatedByItsWorker ==
    \A k \in Splits :
      /\ mw[k].pc = "map_func" => itm_file[k].exists /\ itm_file[k].data = <<>>
      /\ mw[k].ret # "none" => itm_file[k].exists
      /\ ~Spawned(k) \/ mw[k].pc \in {"open_split", "create_itm"} => ~itm_file[k].exists
      /\ mw[k].err \in {"open_split", "create_itm"} => ~itm_file[k].exists

\* The first worker is about to call map_func on its new file while the
\* second one, spawned too, has none yet.
C11_Witness ==
    /\ total_splits >= 2
    /\ mw[0].pc = "map_func" /\ itm_file[0].exists
    /\ Spawned(1) /\ ~itm_file[1].exists

\* C12: the coordinator does not get past a worker that has not terminated:
\* while map worker k has not terminated no worker from k on has been waited
\* for, the reduce worker is not spawned and the call has not returned; while
\* the reduce worker has not terminated the call has not returned; and as
\* long as the worker waited for is running, no step moves the coordinator.
C12_BlockedByRunningWorker ==
    /\ [](\A k \in Splits : ~Terminated(k) =>
            /\ \A j \in Splits : j >= k => ~Waited(j)
            /\ ~ReduceSpawned
            /\ pc # "returned")
    /\ [](rw.pc # "exited" => pc # "returned" /\ ~rw.waited)
    /\ [][pc = "wait_map" /\ ~Terminated(i) =>
            pc' = pc /\ i' = i /\ log' = log /\ rw' = rw]_vars
    /\ [][pc = "wait_reduce" /\ rw.pc # "exited" => pc' = pc /\ log' = log]_vars

\* The coordinator waits for the first worker, which has not opened its
\* split yet, while the second one has finished with success.
C12_Witness ==
    /\ pc = "wait_map" /\ i = 0
    /\ total_splits >= 2
    /\ mw[0].pc = "open_split"
    /\ mw[1].status = "ok" /\ ~Waited(1)

\* The "Map worker k failed" lines printed so far, and all such lines.
DiagnosticsFor(k) == Cardinality({n \in 1..Len(log) : log[n] = <<"map", k>>})
MapDiagnostics == Cardinality({n \in 1..Len(log) : log[n][1] = "map"})
WaitLoopDone == pc \in {"fork_reduce", "wait_reduce", "returned"} \/ fatal = "fork_reduce"

\* C14: the coordinator has printed one diagnostic naming k for each map
\* worker k it has waited for that exited with a failure status, and none for
\* any other worker; after the waiting loop the number of these diagnostics
\* is the number of map workers that exited with a failure status.
C14_OneDiagnosticPerFailure ==
    /\ \A k \in Splits :
         DiagnosticsFor(k) = IF Waited(k) /\ mw[k].status = "fail" THEN 1 ELSE 0
    /\ WaitLoopDone =>
         MapDiagnostics = Cardinality({k \in Splits : mw[k].status = "fail"})

C14_Witness ==
    /\ pc = "fork_reduce"
    /\ total_splits >= 2
    /\ mw[0].status = "ok" /\ mw[1].status = "fail"
    /\ log = << <<"map", 1>> >>

\* C15: a worker is waited for only when every worker is spawned and every
\* worker of a lower index has been waited for; in the waiting loop the
\* workers waited for are those below the loop index; and the diagnostics
\* are in increasing index order, that of the reduce worker last.
C15_WaitsInIndexOrder ==
    /\ \A k \in Splits :
         Waited(k) => /\ \A j \in Splits : Spawned(j)
                      /\ \A j \in Splits : j < k => Waited(j)
    /\ pc = "wait_map" =>
         /\ \A j \in Splits : Spawned(j)
         /\ \A j \in Splits : Waited(j) <=> j < i
    /\ \A m, n \in 1..Len(log) :
         m < n => /\ log[m][1] = "map"
                  /\ log[n][1] = "map" => log[m][2] < log[n][2]

\* Both workers have failed; the first has been waited for and reported, the
\* second, long terminated, not yet.
C15_Witness ==
    /\ pc = "wait_map" /\ i = 1
    /\ total_splits >= 2
    /\ mw[0].status = "fail" /\ mw[1].status = "fail"
    /\ log = << <<"map", 0>> >> /\ ~Waited(1)

\* C16: a map worker that could not open its split has exited with a failure
\* status, with no intermediate file created and map_func not called; one
\* that could not create the intermediate file has exited with a failure
\* status and map_func not called; map_func is called only on a created
\* file; and the worker exits with success exactly when map_func was called
\* and returned success.
C16_MapWorkerSteps ==
    \A k \in Splits :
      /\ mw[k].err = "open_split" =>
           mw[k].status = "fail" /\ mw[k].ret = "none" /\ ~itm_file[k].exists
      /\ mw[k].err = "create_itm" =>
           mw[k].status = "fail" /\ mw[k].ret = "none" /\ split_file[k].exists
      /\ mw[k].pc = "map_func" \/ mw[k].ret # "none" =>
           split_file[k].exists /\ itm_file[k].exists
      /\ mw[k].status = "ok" <=> mw[k].ret = "ok"
      /\ mw[k].ret = "fail" => mw[k].status = "fail" /\ mw[k].err = "map_func"
      /\ mw[k].ret # "none" => mw[k].pc = "exited"

\* One worker failed to open its split, another one's map_func failed.
C16_Witness ==
    /\ total_splits >= 2
    /\ mw[0].err = "open_split" /\ ~itm_file[0].exists
    /\ mw[1].ret = "fail" /\ itm_file[1].exists

\* C17: the reduce worker opens the intermediate files in index order, rw.j
\* of them so far; it creates mr.rst and calls reduce_func only after it has
\* opened all of them; and when an open (or the allocation before it) fails
\* it exits with a failure status, mr.rst not created and reduce_func not
\* called.
C17_ReduceWorkerSteps ==
    /\ rw.j \in 0..total_splits
    /\ rw.pc = "open_itm" =>
         rw.j < total_splits /\ \A k \in Splits : k < rw.j => itm_file[k].exists
    /\ rw.pc \in {"create_rst", "reduce_func"} \/ rw.ret # "none" =>
         rw.j = total_splits
    /\ rst_file.exists =>
         rw.j = total_splits /\ rw.pc \in {"reduce_func", "exited"}
    /\ rw.err \in {"malloc", "open_itm"} =>
         /\ rw.status = "fail" /\ rw.j < total_splits
         /\ ~rst_file.exists /\ rw.ret = "none"
    /\ rw.status = "ok" <=> rw.ret = "ok"

\* The first open succeeded and the second failed although the file is there.
C17_Witness ==
    /\ total_splits >= 2
    /\ rw.err = "open_itm" /\ rw.j = 1
    /\ \A k \in Splits : itm_file[k].exists
    /\ ~rst_file.exists

\* C20: a diagnostic of the coordinator is about a worker that exited with a
\* failure status; a worker killed by a signal has none; and after waiting
\* for a worker that failed or was killed the coordinator is still in the
\* pipeline: in the waiting loop, at the reduce phase, or returned.
C20_SignalDeathIsSilent ==
    /\ \A n \in 1..Len(log) :
         /\ log[n][1] = "map" => mw[log[n][2]].status = "fail"
         /\ log[n][1] = "reduce" => rw.status = "fail"
    /\ \A k \in Splits :
         Waited(k) /\ mw[k].status \in {"signal", "fail"} =>
           WaitLoopDone \/ (pc = "wait_map" /\ i > k)
    /\ rw.waited => pc = "returned" /\ fatal = "none"
    /\ pc = "returned" => rw.waited

\* A call has returned with nothing printed although a map worker and the
\* reduce worker were killed.
C20_Witness ==
    /\ pc = "returned"
    /\ mw[0].status = "signal" /\ Waited(0)
    /\ rw.status = "signal"
    /\ log = <<>>

-----------------------------------------------------------------------------
\* The sizes of the splits.

\* The bytes of the last record of a split that are in the split: its
\* trailing pieces of one record.
RECURSIVE LastRecordBytes(_)
LastRecordBytes(data) ==
    IF data = <<>> THEN 0
    ELSE LET n == Len(data)
             front == SubSeq(data, 1, n - 1)
         IN IF n >= 2 /\ data[n - 1].rec = data[n].rec
            THEN data[n].len + LastRecordBytes(front)
            ELSE data[n].len

\* The bytes of the input that are in no split.
Dropped == FileSize(input) - BytesUpTo(total_splits - 1)

\* C18: a split that is not empty holds, before its last record (and even
\* before the last piece fgets() returned), fewer bytes than the target, so
\* that it is no larger than the target minus one plus the length of its last
\* record; a split is empty only when the target is 0 or the input had run
\* out before it.
C18_OvershootBelowLastRecord ==
    PartitionDone =>
      \A k \in Splits :
        LET data == split_file[k].data
            n == Len(data)
        IN IF data = <<>>
           THEN TargetSize = 0 \/ ExhaustedBy(k - 1)
           ELSE /\ SplitBytes(k) - data[n].len < TargetSize
                /\ SplitBytes(k) - LastRecordBytes(data) < TargetSize
                /\ SplitBytes(k) <= TargetSize - 1 + input[data[n].rec].len

\* A split of two records that is larger than the target, the second record
\* being a long one copied in two pieces.
C18_Witness ==
    /\ PartitionDone
    /\ SplitBytes(0) > TargetSize
    /\ Len(split_file[0].data) >= 3
    /\ LastRecordBytes(split_file[0].data) > BufSize

\* C19: the splits are a prefix of the input and the bytes of the input in no
\* split are at most size mod N: none when the size is a multiple of N, the
\* splits then making up the whole input, and all of them when size < N, the
\* target being 0 and every split empty.
C19_DroppedAtMostRemainder ==
    PartitionDone =>
      /\ IsPrefixOfInput(ConcatSplits(total_splits - 1))
      /\ Dropped >= 0 /\ Dropped <= FileSize(input) % total_splits
      /\ FileSize(input) % total_splits = 0 =>
           Coalesce(ConcatSplits(total_splits - 1)) = WholeInput(input)
      /\ FileSize(input) < total_splits =>
           /\ TargetSize = 0 /\ Dropped = FileSize(input)
           /\ \A k \in Splits : split_file[k].data = <<>>

\* Bytes are dropped although the target is not 0.
C19_Witness ==
    /\ PartitionDone
    /\ TargetSize > 0
    /\ Dropped > 0 /\ Dropped = FileSize(input) % total_splits

-----------------------------------------------------------------------------
\* Two calls in one working directory.

OtherPast(phases) == other \in phases

\* C13: the files a second call creates are the ones the first call names
\* split-k, mr-k.itm and mr.rst: once the second call has written its
\* splits, created its intermediate files or written its result, these files
\* of the first call exist, whatever the first call has done so far; and a
\* file last written by one call is one that this call has got to write.
C13_CallsShareTheirFiles ==
    /\ OtherPast({"split_done", "itm_created", "itm_written", "done"}) =>
         \A k \in Splits : split_file[k].exists
    /\ OtherPast({"itm_created", "itm_written", "done"}) =>
         \A k \in Splits : itm_file[k].exists
    /\ OtherPast({"done"}) => rst_file.exists
    /\ \A k \in Splits :
         /\ itm_file[k].by = 1 => mw[k].pc = "map_func" \/ Terminated(k)
         /\ itm_file[k].by = 2 => OtherPast({"itm_created", "itm_written", "done"})
    /\ rst_file.by = 1 => rw.pc \in {"reduce_func", "exited"}
    /\ rst_file.by = 2 => OtherPast({"done"})

\* The collision: the map worker and the reduce worker of the first call both
\* succeeded, and yet its mr.rst lacks the matching line, the reduce worker
\* having read the mr-0.itm that the second call had just truncated.
C13_Witness ==
    /\ total_splits = 1
    /\ mw[0].ret = "ok" /\ rw.ret = "ok"
    /\ itm_file[0].by = 2
    /\ rst_file.by = 1
    /\ DirectTransform # <<>>
    /\ rst_file.data # DirectTransform

====
